---------------------------- MODULE Spec2Model ----------------------------
(***************************************************************************)
(* tropennacht_app: a FastAPI application in which a logged-in user keeps  *)
(* a list of cities (table public.users_cities) and views, per city, a     *)
(* calendar of "tropical nights" computed from hourly weather data by      *)
(* generate_tropical_nights_plot, a function memoised in a TTLCache.       *)
(*                                                                         *)
(* Dates are proleptic Gregorian ordinals (datetime.toordinal); a          *)
(* timestamp of the hourly data is an hour number, ordinal * 24 + hour.    *)
(* Temperatures are whole degrees Celsius.  Coordinates are in 1/10000     *)
(* degree.                                                                 *)
(***************************************************************************)
EXTENDS Integers, Sequences, FiniteSets, TLC

VARIABLES
    rows,       \* the rows of public.users_cities
    session,    \* request.session of the browser (the signed session cookie)
    cache,      \* generate_calendar.cache: key -> [value, expires]
    clock,      \* seconds since the process started (time.monotonic)
    bootDay,    \* the calendar day on which the process started
    weather,    \* the hourly temperatures the weather data source holds
    resp,       \* the last HTTP request and the response to it
    loggedOut,  \* history: /logout was requested and no login succeeded since
    calls       \* history: what a direct caller of generate_tropical_nights_plot saw

vars == <<rows, session, cache, clock, bootDay, weather, resp, loggedOut, calls>>

None == "None"

-----------------------------------------------------------------------------
(* datetime: the calendar *)

IsLeap(y) == y % 4 = 0 /\ (y % 100 # 0 \/ y % 400 = 0)

DaysInMonth(y, m) ==
    IF m = 2 THEN (IF IsLeap(y) THEN 29 ELSE 28)
    ELSE IF m \in {4, 6, 9, 11} THEN 30 ELSE 31

DaysBeforeYear(y) ==
    (y - 1) * 365 + (y - 1) \div 4 - (y - 1) \div 100 + (y - 1) \div 400

RECURSIVE DaysBeforeMonth(_, _)
DaysBeforeMonth(y, m) ==
    IF m = 1 THEN 0 ELSE DaysBeforeMonth(y, m - 1) + DaysInMonth(y, m - 1)

\* datetime(y, m, d).toordinal()
Ordinal(y, m, d) == DaysBeforeYear(y) + DaysBeforeMonth(y, m) + d

\* Timestamp.year of an ordinal (datetime._ord2ymd: the 400-, 100-, 4- and
\* 1-year cycles of the calendar)
YearOf(n) ==
    LET n0   == n - 1
        n400 == n0 \div 146097
        r400 == n0 % 146097
        n100 == r400 \div 36524
        r100 == r400 % 36524
        n4   == r100 \div 1461
        r4   == r100 % 1461
        n1   == r4 \div 365
        year == n400 * 400 + n100 * 100 + n4 * 4 + n1 + 1
    IN  IF n1 = 4 \/ n100 = 4 THEN year - 1 ELSE year

MonthOf(n) ==
    LET y == YearOf(n)
        k == n - DaysBeforeYear(y)
    IN  CHOOSE m \in 1..12 :
            DaysBeforeMonth(y, m) < k /\ k <= DaysBeforeMonth(y, m) + DaysInMonth(y, m)

DayOf(n) ==
    LET y == YearOf(n) IN n - DaysBeforeYear(y) - DaysBeforeMonth(y, MonthOf(n))

\* datetime(year, month, day) raises ValueError when the day is not in the month
ValidDate(y, m, d) == m \in 1..12 /\ d \in 1..DaysInMonth(y, m)

SecondsPerDay == 60 * 60 * 24

HoursPerDay == 24

\* datetime.now(), as the day it falls on
Today == bootDay + clock \div SecondsPerDay

-----------------------------------------------------------------------------
(* The hourly data: a DataFrame indexed by time with a column "temp".  The  *)
(* frame holds one row per hour from lo to hi, of temperature base, except  *)
(* at the timestamps of patch: there the row is missing (Absent) or has the *)
(* temperature patch gives.                                                 *)

Absent == [present |-> FALSE, temp |-> 0]

Row(t) == [present |-> TRUE, temp |-> t]

HasRow(df, ts) ==
    /\ df.lo <= ts /\ ts <= df.hi
    /\ ~(ts \in DOMAIN df.patch /\ ~df.patch[ts].present)

Temp(df, ts) == IF ts \in DOMAIN df.patch THEN df.patch[ts].temp ELSE df.base

\* df.loc[a:b], a label slice: both ends are included
LocSlice(df, a, b) ==
    [df EXCEPT !.lo = IF a > df.lo THEN a ELSE df.lo,
               !.hi = IF b < df.hi THEN b ELSE df.hi]

Midnight(date) == date * HoursPerDay

-----------------------------------------------------------------------------
(* generate_calendar.py: generate_tropical_nights_plot *)

\* a tropical night: the temperature does not drop below 20 degrees
TROPICAL_MIN == 20

\* Point(52.52, 13.405)
berlin == [lat |-> 525200, lon |-> 134050]

\* start = datetime(now.year - 5, now.month, now.day); end = today, 00:00
StartValid(today) == ValidDate(YearOf(today) - 5, MonthOf(today), DayOf(today))

StartOf(today) == Ordinal(YearOf(today) - 5, MonthOf(today), DayOf(today))

\* Hourly(point, start, end).fetch(): the rows of the source for the point
\* with start <= time <= end
Fetch(point, start, end) ==
    [lo    |-> Midnight(start),
     hi    |-> Midnight(end),
     base  |-> weather[point].base,
     patch |-> weather[point].patch]

\* daily_data = data.loc[start_of_day:end_of_day]
daily_data(data, date) == LocSlice(data, Midnight(date), Midnight(date + 1))

\* df.loc[date] is the one row whose timestamp is date, and raises KeyError
\* when no row has it
LocRowMissing(df, date) == ~HasRow(df, Midnight(date))

\* day_data = df.loc[date]; return day_data["temp"].min() >= 20
is_tropical_night(df, date) == Temp(df, Midnight(date)) >= TROPICAL_MIN

\* pd.date_range(start=start, end=end, freq="D")
date_range(start, end) == start..end

\* the loop over date_range: the dates at which df.loc[date] raises
KeyErrorDates(data, start, end) ==
    {date \in date_range(start, end) : LocRowMissing(daily_data(data, date), date)}

\* results_df: one row per date of date_range, in order, with the columns
\* date, tropical_night, value = tropical_night.astype(int) and year
results_df(data, start, end) ==
    [i \in 1..Cardinality(date_range(start, end)) |->
        LET date == start + i - 1
            tropical_night == is_tropical_night(daily_data(data, date), date)
        IN  [date           |-> date,
             tropical_night |-> tropical_night,
             value          |-> IF tropical_night THEN 1 ELSE 0,
             year           |-> YearOf(date)]] \o << >>

\* (count() in place of sum(): the rows of the year)
SumByYear_count(df) ==
    {[year            |-> y,
      tropical_nights |-> Cardinality({i \in DOMAIN df : df[i].year = y})] :
        y \in {df[i].year : i \in DOMAIN df}}

\* groupby("year")["value"].sum(): per year of the frame, the sum of value
\* over the rows of the year (value is 0 or 1: the sum counts the ones)
SumByYear(df) ==
    {[year            |-> y,
      tropical_nights |->
          Cardinality({i \in DOMAIN df : df[i].year = y /\ df[i].value = 1})] :
        y \in {df[i].year : i \in DOMAIN df}}

\* the groups come in the order of their keys
RECURSIVE SortByYear(_)
SortByYear(S) ==
    IF S = {} THEN << >>
    ELSE LET first == CHOOSE r \in S : \A z \in S : r.year <= z.year
         IN  <<first>> \o SortByYear(S \ {first})

\* results_df.groupby("year")["value"].sum().reset_index(), columns renamed
annual_summary(df) == SortByYear(SumByYear(df))

\* annual_summary.loc[annual_summary["year"] == year, "tropical_nights"].values[0]
TropicalNightsOf(summary, year) ==
    LET i == CHOOSE i \in 1..Len(summary) :
                 /\ summary[i].year = year
                 /\ \A j \in 1..(i - 1) : summary[j].year # year
    IN  summary[i].tropical_nights

\* the figure: the calendar of the columns date and value, the annotation holding
\* the table of annual_summary, and one annotation "<year>: <n> Tropical
\* Nights" per row of annual_summary; fig.to_html(full_html=False)
Figure(df, summary) ==
    [calplot     |-> [date  |-> [i \in DOMAIN df |-> df[i].date] \o << >>,
                      value |-> [i \in DOMAIN df |-> df[i].value] \o << >>],
     annotations |->
         <<[kind |-> "table", table |-> summary]>> \o
         [i \in 1..Len(summary) |->
             [kind            |-> "label",
              year            |-> summary[i].year,
              tropical_nights |-> TropicalNightsOf(summary, summary[i].year)]]]

Render(df) ==
    CHOOSE html \in {Figure(df, summary) : summary \in {annual_summary(df)}} : TRUE

\* The result of a call: the exception raised ("none" when it returns), the
\* value returned, and the points fetched from the data source.
NoValue == [calplot |-> [date |-> << >>, value |-> << >>], annotations |-> << >>]

\* lines 36-104: from the fetched data to the markup
Aggregate(data, start, end) ==
    IF KeyErrorDates(data, start, end) # {}
    THEN [exc |-> "KeyError", value |-> NoValue, fetched |-> <<berlin>>]
    ELSE CHOOSE r \in
             {[exc |-> "none", value |-> Render(df), fetched |-> <<berlin>>] :
                 df \in {results_df(data, start, end)}} : TRUE

\* line 34: data = Hourly(berlin, start, end).fetch(); net tells whether the
\* data source answers
FetchAndAggregate(start, end, net) ==
    IF net # "ok"
    THEN [exc |-> "FetchError", value |-> NoValue, fetched |-> <<berlin>>]
    ELSE CHOOSE r \in
             {Aggregate(data, start, end) : data \in {Fetch(berlin, start, end)}} : TRUE

\* The body of generate_tropical_nights_plot on the day today
PlotBody(city_name, lat, lon, today, net) ==
    IF ~StartValid(today)
    THEN [exc |-> "ValueError", value |-> NoValue, fetched |-> <<>>]
    ELSE CHOOSE r \in
             {FetchAndAggregate(start, today, net) : start \in {StartOf(today)}} : TRUE

-----------------------------------------------------------------------------
(* cache = TTLCache(maxsize=inf, ttl=60 * 60 * 24); @cached(cache) *)

ttl == 60 * 60 * 24

\* hashkey(lat=lat, lon=lon): the key of a call made with these keywords
hashkey(lat, lon) == [lat |-> lat, lon |-> lon]

\* TTLCache.__getitem__: an entry is there until the timer reaches expires
CacheHit(k) == k \in DOMAIN cache /\ clock < cache[k].expires

\* (a time-to-live of 60 * 24 seconds)
CacheStore_minutes(k, value) ==
    LET live == {j \in DOMAIN cache : clock < cache[j].expires} \cup {k}
    IN  [j \in live |->
            IF j = k THEN [value |-> value, expires |-> clock + 60 * 24]
            ELSE cache[j]]

\* TTLCache.__setitem__: drops the expired entries, then stores the value
\* with expires = now + ttl
CacheStore(k, value) ==
    LET live == {j \in DOMAIN cache : clock < cache[j].expires} \cup {k}
    IN  [j \in live |->
            IF j = k THEN [value |-> value, expires |-> clock + ttl]
            ELSE cache[j]]

\* generate_tropical_nights_plot(lat=lat, lon=lon) through @cached: what the
\* call gives (out) and the cache after it (cache).  A call that raises
\* stores nothing.
generate_tropical_nights_plot(lat, lon, net) ==
    LET k == hashkey(lat, lon)
    IN  IF CacheHit(k)
        THEN [out   |-> [exc |-> "none", value |-> cache[k].value, fetched |-> <<>>],
              cache |-> cache]
        ELSE CHOOSE r \in
                 {[out   |-> out,
                   cache |-> IF out.exc = "none" THEN CacheStore(k, out.value)
                             ELSE cache] :
                     out \in {PlotBody(None, lat, lon, Today, net)}} : TRUE

-----------------------------------------------------------------------------
(* main.py: city_options, the static catalog (the entries the model uses,   *)
(* in the order of the list)                                                *)

city_options ==
    <<[name |-> "Athens", lat |-> 379838, lon |-> 237275],
      [name |-> "Athens", lat |-> 379838, lon |-> 237275],
      [name |-> "Berlin", lat |-> 525200, lon |-> 134050],
      [name |-> "Cairo",  lat |-> 300444, lon |-> 312357]>>

Points == {[lat |-> city_options[i].lat, lon |-> city_options[i].lon] :
              i \in 1..Len(city_options)}

-----------------------------------------------------------------------------
(* Identifiers.  A UUID is a name ("u1", "c1"); a string that may hold one  *)
(* is [form, uuid]: "canon" is str(uuid), "upper" is the same in capitals   *)
(* (another string, the same UUID), "text" is not a UUID, and "none" is     *)
(* Python's None (a form field that was not sent).                          *)

Str(u) == [form |-> "canon", uuid |-> u]

Upper(u) == [form |-> "upper", uuid |-> u]

NotAUuid == [form |-> "text", uuid |-> "not-a-uuid"]

NoneStr == [form |-> "none", uuid |-> ""]

\* uuid.UUID(s): the UUID, or ValueError for a badly formed string, or
\* TypeError for None
uuid_UUID(s) ==
    IF s.form \in {"canon", "upper"} THEN [exc |-> "none", uuid |-> s.uuid]
    ELSE IF s.form = "none" THEN [exc |-> "TypeError", uuid |-> ""]
    ELSE [exc |-> "ValueError", uuid |-> ""]

-----------------------------------------------------------------------------
(* tropennacht_db.py: the table users_cities and its three functions.  Each *)
(* gives the rows after the call, the value returned, the exception that    *)
(* reaches the caller ("none": every exception is caught and printed) and   *)
(* the statements sent to the database.  db tells whether the database      *)
(* answers; when it does not, the statement raises and is rolled back.      *)

MaxRows == 1

CityIdSeq == <<"c1", "c2", "c3", "c4">>

\* the values uuid.uuid4 may give for UsersCities.id
CityIds == {CityIdSeq[i] : i \in 1..MaxRows}

add_user_city(user_id, city, db, new_id) ==
    LET parsed == uuid_UUID(user_id)
    IN  IF parsed.exc # "none"
        THEN [rows |-> rows, ret |-> << >>, exc |-> "none", queries |-> << >>]
        ELSE [rows    |-> IF db = "ok"
                          THEN rows \cup {[id |-> new_id, user_id |-> parsed.uuid,
                                           city |-> city]}
                          ELSE rows,
              ret     |-> << >>,
              exc     |-> "none",
              queries |-> <<[op |-> "INSERT", id |-> new_id, user_id |-> parsed.uuid]>>]

\* (filter_by(id=city_id) alone)
EntryToDelete_byIdOnly(city_id, user_id) ==
    {r \in rows : r.id = city_id}

\* session.query(UsersCities).filter_by(id=city_id, user_id=user_id).first()
EntryToDelete(city_id, user_id) ==
    {r \in rows : r.id = city_id /\ r.user_id = user_id}

delete_user_city_by_id(user_id, city_id, db) ==
    LET u == uuid_UUID(user_id)
        c == uuid_UUID(city_id)
    IN  IF u.exc # "none" \/ c.exc # "none"
        THEN [rows |-> rows, ret |-> << >>, exc |-> "none", queries |-> << >>]
        ELSE LET select == [op |-> "SELECT", id |-> c.uuid, user_id |-> u.uuid]
                 entry_to_delete == EntryToDelete(c.uuid, u.uuid)
             IN  IF db # "ok" \/ entry_to_delete = {}
                 THEN [rows |-> rows, ret |-> << >>, exc |-> "none",
                       queries |-> <<select>>]
                 ELSE [rows    |-> rows \ entry_to_delete,
                       ret     |-> << >>,
                       exc     |-> "none",
                       queries |-> <<select,
                                     [op |-> "DELETE", id |-> c.uuid, user_id |-> u.uuid]>>]

\* the orders in which a SELECT without ORDER BY may give the rows S
RECURSIVE Orderings(_)
Orderings(S) ==
    IF S = {} THEN {<< >>}
    ELSE UNION {{<<x>> \o rest : rest \in Orderings(S \ {x})} : x \in S}

\* ret is the set of the lists the call may return: the rows of the user as
\* {"id": str(city.id), "city": city.city}, in any order
get_cities_for_user(user_id, db) ==
    LET u == uuid_UUID(user_id)
    IN  IF u.exc # "none"
        THEN [rows |-> rows, ret |-> {<< >>}, exc |-> "none", queries |-> << >>]
        ELSE [rows    |-> rows,
              ret     |-> IF db = "ok"
                          THEN Orderings({[id |-> Str(r.id), city |-> r.city] :
                                             r \in {x \in rows : x.user_id = u.uuid}})
                          ELSE {<< >>},
              exc     |-> "none",
              queries |-> <<[op |-> "SELECT", id |-> "", user_id |-> u.uuid]>>]

-----------------------------------------------------------------------------
(* main.py: the session and the routes.  A handler runs from the request to *)
(* its response without another request in between.                         *)

\* the accounts of the auth service: response.user of a successful sign-in
Accounts == {[email |-> "a@example.org", id |-> Str("u1")],
             [email |-> "b@example.org", id |-> Str("u2")]}

\* request.session: empty, or holding "user"
EmptySession == [has_user |-> FALSE, user |-> [email |-> "", id |-> NoneStr]]

SessionOf(user) == [has_user |-> TRUE, user |-> user]

\* what the form of a request may carry as city, and as city_id
CityNames == {"Cairo", "Atlantis"}

CityIdInputs ==
    {Str(c) : c \in CityIds} \cup {Upper(c) : c \in CityIds} \cup {NotAUuid, NoneStr}

NoForm == [city |-> "", city_id |-> NoneStr]

NoPlot ==
    [called |-> FALSE, exc |-> "none", fetched |-> << >>, lat |-> 0, lon |-> 0,
     net |-> ""]

\* a response: the route and the form of the request, the status (with the
\* redirect target or the template), the exception that left the handler
\* ("none" if it returned), the database statements and the plot call made
\* on the way, and the context given to the template
Response(route, form, status, exc, queries, plot, context) ==
    [route |-> route, form |-> form, status |-> status, exc |-> exc,
     queries |-> queries, plot |-> plot, context |-> context]

\* db_exc: the exception a function of tropennacht_db raised to the handler
\* that called it ("none": it returned)
NoContext == [error |-> "", db_exc |-> "none", cities |-> << >>, plot_html |-> NoValue]

\* an exception no handler catches: the server answers 500
Unhandled(route, form, exc, queries, plot) ==
    Response(route, form, "500", exc, queries, plot, NoContext)

\* get_current_user: raises NotAuthenticatedException unless the session
\* holds a user with an id
NotAuthenticated ==
    \/ ~session.has_user
    \/ session.user.id.form = "none"
    \/ session.user.id.uuid = ""

\* not_authenticated_exception_handler
not_authenticated_exception_handler(route, form) ==
    Response(route, form, "302 /login", "none", << >>, NoPlot, NoContext)

get_signup ==
    /\ resp' = Response("GET /signup", NoForm, "200 signup.html", "none", << >>,
                        NoPlot, NoContext)
    /\ UNCHANGED <<rows, session, cache, clock, bootDay, weather, loggedOut, calls>>

\* supabase.auth.sign_up succeeds or raises
post_signup(ok) ==
    /\ resp' = IF ok
               THEN Response("POST /signup", NoForm, "302 /login", "none", << >>,
                             NoPlot, NoContext)
               ELSE Response("POST /signup", NoForm, "200 signup.html", "none", << >>,
                             NoPlot, [NoContext EXCEPT !.error = "AuthError"])
    /\ UNCHANGED <<rows, session, cache, clock, bootDay, weather, loggedOut, calls>>

get_login ==
    /\ resp' = Response("GET /login", NoForm, "200 login.html", "none", << >>,
                        NoPlot, NoContext)
    /\ UNCHANGED <<rows, session, cache, clock, bootDay, weather, loggedOut, calls>>

\* supabase.auth.sign_in_with_password gives the user of an account
post_login_ok(user) ==
    /\ session' = SessionOf([email |-> user.email, id |-> user.id])
    /\ loggedOut' = FALSE
    /\ resp' = Response("POST /login", NoForm, "302 /cities", "none", << >>,
                        NoPlot, NoContext)
    /\ UNCHANGED <<rows, cache, clock, bootDay, weather, calls>>

\* or raises: the login page with the error
post_login_error ==
    /\ resp' = Response("POST /login", NoForm, "200 login.html", "none", << >>,
                        NoPlot, [NoContext EXCEPT !.error = "AuthError"])
    /\ UNCHANGED <<rows, session, cache, clock, bootDay, weather, loggedOut, calls>>

\* (a logout that leaves the session as it is)
SessionClear_kept == session

\* request.session.clear()
SessionClear == EmptySession

logout ==
    /\ session' = SessionClear
    /\ loggedOut' = TRUE
    /\ resp' = Response("GET /logout", NoForm, "302 /login", "none", << >>,
                        NoPlot, NoContext)
    /\ UNCHANGED <<rows, cache, clock, bootDay, weather, calls>>

public_route ==
    /\ resp' = Response("GET /", NoForm, "200 public.html", "none", << >>,
                        NoPlot, NoContext)
    /\ UNCHANGED <<rows, session, cache, clock, bootDay, weather, loggedOut, calls>>

cities_route(db) ==
    /\ IF NotAuthenticated
       THEN resp' = not_authenticated_exception_handler("GET /cities", NoForm)
       ELSE \E r \in {get_cities_for_user(session.user.id, db)} :
                \E cities \in r.ret :
                    resp' = Response("GET /cities", NoForm, "200 cities.html", "none",
                                     r.queries, NoPlot,
                                     [NoContext EXCEPT !.cities = cities,
                                                       !.db_exc = r.exc])
    /\ UNCHANGED <<rows, session, cache, clock, bootDay, weather, loggedOut, calls>>

\* next((city for city in city_list if city["id"] == city_id), None)
SelectedCity(city_list, city_id) ==
    {city_list[i] : i \in {i \in DOMAIN city_list :
                               /\ city_list[i].id = city_id
                               /\ \A j \in 1..(i - 1) : city_list[j].id # city_id}}

\* next(city for city in city_options if city["name"] == selected_city["city"])
SelectedCityOption(name) ==
    {city_options[i] : i \in {i \in DOMAIN city_options :
                                  /\ city_options[i].name = name
                                  /\ \A j \in 1..(i - 1) : city_options[j].name # name}}

\* the handler of GET /city/{city_id} once the user is known
CityPage(city_id, city_list, queries, net) ==
    LET route == "GET /city/{city_id}"
        form  == [NoForm EXCEPT !.city_id = city_id]
        selected_city == SelectedCity(city_list, city_id)
    IN  IF selected_city = {}
        THEN \* selected_city is None: None["city"] raises TypeError
             /\ resp' = Unhandled(route, form, "TypeError", queries, NoPlot)
             /\ cache' = cache
        ELSE \E sc \in selected_city :
               IF SelectedCityOption(sc.city) = {}
               THEN \* next() without a default raises StopIteration
                    /\ resp' = Unhandled(route, form, "StopIteration", queries, NoPlot)
                    /\ cache' = cache
               ELSE \E option \in SelectedCityOption(sc.city) :
                    \E r \in {generate_tropical_nights_plot(option.lat, option.lon, net)} :
                    \E plot \in {[called |-> TRUE, exc |-> r.out.exc,
                                  fetched |-> r.out.fetched,
                                  lat |-> option.lat, lon |-> option.lon,
                                  net |-> net]} :
                      /\ cache' = r.cache
                      /\ resp' = IF r.out.exc # "none"
                                 THEN Unhandled(route, form, r.out.exc, queries, plot)
                                 ELSE Response(route, form, "200 city.html", "none",
                                               queries, plot,
                                               [NoContext EXCEPT
                                                   !.plot_html = r.out.value])

city(city_id, db, net) ==
    /\ IF NotAuthenticated
       THEN /\ resp' = not_authenticated_exception_handler(
                           "GET /city/{city_id}", [NoForm EXCEPT !.city_id = city_id])
            /\ cache' = cache
       ELSE \E r \in {get_cities_for_user(session.user.id, db)} :
                \E city_list \in r.ret :
                    CityPage(city_id, city_list, r.queries, net)
    /\ UNCHANGED <<rows, session, clock, bootDay, weather, loggedOut, calls>>

\* new_id is what uuid.uuid4 gives for the new row: an id no row has
add_city(name, db, new_id) ==
    /\ IF NotAuthenticated
       THEN /\ resp' = not_authenticated_exception_handler(
                           "POST /city", [NoForm EXCEPT !.city = name])
            /\ rows' = rows
       ELSE /\ new_id \notin {r.id : r \in rows}
            /\ \E r \in {add_user_city(session.user.id, name, db, new_id)} :
                /\ rows' = r.rows
                /\ resp' = Response("POST /city", [NoForm EXCEPT !.city = name],
                                    "302 /cities", "none", r.queries, NoPlot, NoContext)
    /\ UNCHANGED <<session, cache, clock, bootDay, weather, loggedOut, calls>>

\* the try of delete_city catches ValueError; any other exception would leave
\* the handler
delete_city(city_id, db) ==
    /\ IF NotAuthenticated
       THEN /\ resp' = not_authenticated_exception_handler(
                           "POST /delete_city", [NoForm EXCEPT !.city_id = city_id])
            /\ rows' = rows
       ELSE \E r \in {delete_user_city_by_id(session.user.id, city_id, db)} :
                /\ rows' = r.rows
                /\ resp' = IF r.exc \in {"none", "ValueError"}
                           THEN Response("POST /delete_city",
                                         [NoForm EXCEPT !.city_id = city_id],
                                         "302 /cities", "none", r.queries, NoPlot,
                                         [NoContext EXCEPT !.db_exc = r.exc])
                           ELSE Unhandled("POST /delete_city",
                                          [NoForm EXCEPT !.city_id = city_id],
                                          r.exc, r.queries, NoPlot)
    /\ UNCHANGED <<session, cache, clock, bootDay, weather, loggedOut, calls>>

ProtectedRoutes == {"GET /cities", "GET /city/{city_id}", "POST /city", "POST /delete_city"}

-----------------------------------------------------------------------------
(* A caller of generate_tropical_nights_plot, and the passing of time *)

MaxCalls == 3

MaxClock == 129600

TickSeconds == 43200

NetStates == {"ok", "down"}

\* one call; the caller notes the arguments, the time and what it got
Call(lat, lon, net) ==
    /\ Len(calls) < MaxCalls
    /\ \E r \in {generate_tropical_nights_plot(lat, lon, net)} :
           /\ cache' = r.cache
           /\ calls' = Append(calls,
                  [lat |-> lat, lon |-> lon, t |-> clock, today |-> Today,
                   net |-> net, exc |-> r.out.exc, value |-> r.out.value,
                   fetched |-> r.out.fetched])
    /\ UNCHANGED <<rows, session, clock, bootDay, weather, resp, loggedOut>>

Tick ==
    /\ clock + TickSeconds <= MaxClock
    /\ clock' = clock + TickSeconds
    /\ UNCHANGED <<rows, session, cache, bootDay, weather, resp, loggedOut, calls>>

-----------------------------------------------------------------------------
(* The weather the data source may hold *)

Temps == {TROPICAL_MIN - 1, TROPICAL_MIN}

\* what the source may hold at an hour: no row, or a row with a temperature
RowKinds == {Row(t) : t \in Temps} \cup {Absent}

\* the probed days, as days before the day the process started: on a probed
\* day the source holds mid at 00:00 and rest at every later hour
ProbeOffsets == {1, 2}

ProbeTimes(day) ==
    UNION {Midnight(day - o)..(Midnight(day - o) + HoursPerDay - 1) : o \in ProbeOffsets}

Weathers(day) ==
    {[base  |-> b,
      patch |-> [ts \in ProbeTimes(day) |->
                    LET o == day - ts \div HoursPerDay
                    IN  IF ts % HoursPerDay = 0 THEN mid[o] ELSE rest[o]]] :
        b \in Temps, mid \in [ProbeOffsets -> RowKinds], rest \in [ProbeOffsets -> RowKinds]}

\* before the first request
NoResp == Response("", NoForm, "", "none", << >>, NoPlot, NoContext)

InitApp ==
    /\ rows = {}
    /\ session = EmptySession
    /\ cache = << >>
    /\ clock = 0
    /\ resp = NoResp
    /\ loggedOut = FALSE
    /\ calls = << >>

\* the plot function alone: any weather at Berlin, one call
PlotDays == {Ordinal(2024, 1, 2), Ordinal(2023, 7, 15)}

InitPlot ==
    /\ InitApp
    /\ bootDay \in PlotDays
    /\ \E w \in Weathers(bootDay) :
          weather = [p \in Points |-> IF p = berlin THEN w
                                      ELSE [base |-> TROPICAL_MIN, patch |-> << >>]]

NextPlot ==
    /\ calls = <<>>
    /\ \E p \in Points, net \in NetStates : Call(p.lat, p.lon, net)

SpecPlot == InitPlot /\ [][NextPlot]_vars

-----------------------------------------------------------------------------
(* The application: the requests of one browser, at one time of day *)

AppDay == Ordinal(2024, 1, 2)

\* at Berlin a full, warm record; elsewhere a full, cool one
AppWeather ==
    [p \in Points |-> [base  |-> IF p = berlin THEN TROPICAL_MIN ELSE TROPICAL_MIN - 1,
                       patch |-> << >>]]

Init ==
    /\ InitApp
    /\ bootDay = AppDay
    /\ weather = AppWeather

DbStates == {"ok", "down"}

Next ==
    \/ get_signup
    \/ \E ok \in BOOLEAN : post_signup(ok)
    \/ get_login
    \/ \E user \in Accounts : post_login_ok(user)
    \/ post_login_error
    \/ logout
    \/ public_route
    \/ \E db \in DbStates : cities_route(db)
    \/ \E city_id \in CityIdInputs, db \in DbStates, net \in NetStates :
           city(city_id, db, net)
    \/ \E name \in CityNames, db \in DbStates, new_id \in CityIds :
           add_city(name, db, new_id)
    \/ \E city_id \in CityIdInputs, db \in DbStates : delete_city(city_id, db)

Spec == Init /\ [][Next]_vars

-----------------------------------------------------------------------------
(* The cache: calls of the plot function as the time passes *)

CacheDays == {Ordinal(2024, 1, 1), Ordinal(2024, 2, 28)}

\* the places the calls are made for
CallPoints == {berlin, [lat |-> 300444, lon |-> 312357]}

InitCache ==
    /\ InitApp
    /\ bootDay \in CacheDays
    /\ weather = AppWeather

NextCache ==
    \/ \E p \in CallPoints, net \in NetStates : Call(p.lat, p.lon, net)
    \/ Tick

SpecCache == InitCache /\ [][NextCache]_vars

-----------------------------------------------------------------------------
(* The claims about the plot function *)

\* the data a call fetched
DataOf(c) == Fetch(c.fetched[1], StartOf(c.today), c.today)

\* the timestamps of the rows of the calendar day date in data
ObsOfDay(data, date) ==
    {ts \in Midnight(date)..(Midnight(date) + HoursPerDay - 1) : HasRow(data, ts)}

Returned(c) == c.exc = "none" /\ c.fetched # << >>

\* C1: in the series of a call that returned, a day with an observation is
\* tropical (1) if all its observations are >= 20, and not (0) if any
\* observation of the day, at any hour, is < 20.
C1_MinOfDay ==
    \A n \in DOMAIN calls :
        Returned(calls[n]) =>
            \A data \in {DataOf(calls[n])} :
                \A i \in DOMAIN calls[n].value.calplot.date :
                    \A r \in {[date  |-> calls[n].value.calplot.date[i],
                                value |-> calls[n].value.calplot.value[i]]} :
                        \A obs \in {ObsOfDay(data, r.date)} :
                            obs # {} =>
                                /\ (\A ts \in obs : Temp(data, ts) >= TROPICAL_MIN) => r.value = 1
                                /\ (\E ts \in obs : Temp(data, ts) < TROPICAL_MIN) => r.value = 0

\* C4: a day of the window without any observation is left out of the series,
\* and the call still returns.
C4_NoObservationOmitted ==
    \A n \in DOMAIN calls :
        calls[n].exc \in {"none", "KeyError"} /\ calls[n].fetched # << >> =>
            \A data \in {DataOf(calls[n])} :
                \A date \in StartOf(calls[n].today)..calls[n].today :
                    ObsOfDay(data, date) = {} =>
                        /\ calls[n].exc = "none"
                        /\ \A i \in DOMAIN calls[n].value.calplot.date :
                               calls[n].value.calplot.date[i] # date

\* the years of the days of the series of the markup v
SeriesYears(v) == {YearOf(v.calplot.date[i]) : i \in DOMAIN v.calplot.date}

TropicalDays(v, y) ==
    Cardinality({i \in DOMAIN v.calplot.date :
                    YearOf(v.calplot.date[i]) = y /\ v.calplot.value[i] = 1})

TableOf(v) == v.annotations[1].table

\* C10: in the markup of a call that returned, each year with a day in the
\* series has exactly one row in the table of totals and exactly one label,
\* and both give the number of days of the year in the series with value 1.
C10_AnnualTotals ==
    \A n \in DOMAIN calls :
        calls[n].exc = "none" =>
            \A v \in {calls[n].value} :
                /\ Cardinality({a \in DOMAIN v.annotations :
                                   v.annotations[a].kind = "table"}) = 1
                /\ \A y \in SeriesYears(v) :
                      \A total \in {TropicalDays(v, y)} :
                          /\ Cardinality({j \in DOMAIN TableOf(v) :
                                             TableOf(v)[j].year = y}) = 1
                          /\ \A j \in DOMAIN TableOf(v) :
                                 TableOf(v)[j].year = y =>
                                     TableOf(v)[j].tropical_nights = total
                          /\ Cardinality({a \in DOMAIN v.annotations :
                                             /\ v.annotations[a].kind = "label"
                                             /\ v.annotations[a].year = y}) = 1
                          /\ \A a \in DOMAIN v.annotations :
                                 v.annotations[a].kind = "label"
                                     /\ v.annotations[a].year = y
                                 => v.annotations[a].tropical_nights = total

\* a call returned a series of several years, one of them with some but not
\* all of its days tropical
C10_Witness ==
    \E n \in DOMAIN calls :
        /\ calls[n].exc = "none"
        /\ \A v \in {calls[n].value} :
              /\ Cardinality(SeriesYears(v)) > 1
              /\ \E j \in DOMAIN TableOf(v) :
                    /\ TableOf(v)[j].tropical_nights > 0
                    /\ \E i \in DOMAIN v.calplot.date :
                          /\ YearOf(v.calplot.date[i]) = TableOf(v)[j].year
                          /\ v.calplot.value[i] = 0

-----------------------------------------------------------------------------
(* The claims about the cache *)

SameArgs(a, b) == a.lat = b.lat /\ a.lon = b.lon

Fetches(i, j) ==
    Cardinality({n \in i..j : SameArgs(calls[n], calls[i]) /\ calls[n].fetched # << >>})

\* C2 as claimed: two calls with the same arguments less than 24 hours apart
\* (here: that both return) return the same fragment, and at most one fetch
\* is made for the arguments from the one to the other.
C2_AnyTwoCalls ==
    \A i \in DOMAIN calls : \A j \in DOMAIN calls :
        /\ i < j
        /\ SameArgs(calls[i], calls[j])
        /\ calls[j].t - calls[i].t < ttl
        /\ calls[i].exc = "none" /\ calls[j].exc = "none"
        => /\ calls[j].value = calls[i].value
           /\ Fetches(i, j) <= 1

\* C2 as amended: a call made less than 24 hours after a call with the same
\* arguments that fetched the data and returned a fragment returns that
\* fragment and fetches nothing.
C2_WithinTtlOfFetch ==
    \A i \in DOMAIN calls : \A j \in DOMAIN calls :
        /\ i < j
        /\ SameArgs(calls[i], calls[j])
        /\ calls[j].t - calls[i].t < ttl
        /\ calls[i].exc = "none" /\ calls[i].fetched # << >>
        => /\ calls[j].exc = "none"
           /\ calls[j].value = calls[i].value
           /\ calls[j].fetched = << >>

\* a call served from the cache at a later time than the call that fetched
C2_Witness ==
    \E i \in DOMAIN calls : \E j \in DOMAIN calls :
        /\ i < j
        /\ SameArgs(calls[i], calls[j])
        /\ calls[i].t < calls[j].t
        /\ calls[j].t - calls[i].t < ttl
        /\ calls[i].exc = "none" /\ calls[i].fetched # << >>
        /\ calls[j].exc = "none" /\ calls[j].fetched = << >>

-----------------------------------------------------------------------------
(* The claims about the routes and the table *)

UserIdInputs == {a.id : a \in Accounts}

\* no row has the id city_id names and the user user_id names
NoOwnedRow(user_id, city_id) ==
    ~\E r \in rows :
        /\ uuid_UUID(city_id).exc = "none" /\ r.id = uuid_UUID(city_id).uuid
        /\ uuid_UUID(user_id).exc = "none" /\ r.user_id = uuid_UUID(user_id).uuid

\* C3: delete_user_city_by_id, given a city_id that names no row of the
\* user, leaves every row as it is and raises nothing.
C3_DeleteNotOwned ==
    \A user_id \in UserIdInputs, city_id \in CityIdInputs, db \in DbStates :
        NoOwnedRow(user_id, city_id) =>
            /\ delete_user_city_by_id(user_id, city_id, db).rows = rows
            /\ delete_user_city_by_id(user_id, city_id, db).exc = "none"

\* POST /delete_city was answered for the id of a row of another user, and
\* the row is there
C3_Witness ==
    /\ resp.route = "POST /delete_city"
    /\ resp.status = "302 /cities"
    /\ session.has_user
    /\ \E r \in rows :
          /\ resp.form.city_id = Str(r.id)
          /\ Str(r.user_id) # session.user.id

\* C5: the point fetched for a city page is the point of the coordinates
\* given to generate_tropical_nights_plot.
C5_FetchesGivenPoint ==
    resp.plot.called =>
        \A i \in DOMAIN resp.plot.fetched :
            resp.plot.fetched[i] = [lat |-> resp.plot.lat, lon |-> resp.plot.lon]

\* the rows of the user of the session that GET /city/{city_id} asks for
RequestedRows ==
    {r \in rows : Str(r.user_id) = session.user.id /\ Str(r.id) = resp.form.city_id}

CatalogNames == {city_options[i].name : i \in DOMAIN city_options}

\* C6: GET /city/{city_id} for an id that is not of the user's cities, or of
\* a city whose name is not in the catalog, is answered (an error the user
\* sees), and no exception leaves the handler.
C6_LookupHandled ==
    /\ resp.route = "GET /city/{city_id}"
    /\ ~NotAuthenticated
    /\ \/ RequestedRows = {}
       \/ \E r \in RequestedRows : r.city \notin CatalogNames
    => /\ resp.exc = "none"
       /\ resp.status # "500"

\* C7: a request to a protected route whose session holds no user with an
\* id, or that comes after /logout and before the next login that succeeds,
\* is redirected to /login; it reads and writes no row and makes no plot.
C7_Unauthenticated ==
    resp.route \in ProtectedRoutes /\ (NotAuthenticated \/ loggedOut) =>
        /\ resp.status = "302 /login"
        /\ resp.exc = "none"
        /\ resp.queries = << >>
        /\ ~resp.plot.called

\* after /logout, with rows in the table, a city page was asked for
C7_Witness ==
    /\ loggedOut
    /\ rows # {}
    /\ resp.route = "GET /city/{city_id}"
    /\ resp.status = "302 /login"

\* C8: when the fetch fails, the plot call ends in DataSourceUnavailable and
\* the city page shows a failure; no exception leaves the handler.
C8_FetchFailureLabelled ==
    resp.plot.called /\ resp.plot.net = "down" /\ resp.plot.fetched # << >> =>
        /\ resp.plot.exc = "DataSourceUnavailable"
        /\ resp.status # "500"

\* C9: given a city_id that is no UUID, delete_user_city_by_id ends in an
\* error its caller sees, sends nothing to the database and changes no row.
C9_InvalidIdentifier ==
    /\ resp.route = "POST /delete_city"
    /\ ~NotAuthenticated
    /\ uuid_UUID(resp.form.city_id).exc = "ValueError"
    => /\ resp.context.db_exc # "none"
       /\ resp.queries = << >>

-----------------------------------------------------------------------------
(* The claim about the window *)

\* the call ran the body of the function (it was not served from the cache)
BodyRan(c) == c.fetched # << >> \/ c.exc = "ValueError"

\* the dates of the series of a call that returned
SeriesDates(c) == c.value.calplot.date

\* C11: on every current date, the 29th of February included, a call that
\* runs the body builds its window without failing; the series of a call
\* that returns starts on the same month and day five years before today,
\* ends today, and has each day from the start to the end once, in order.
C11_WindowBuilt ==
    \A n \in DOMAIN calls :
        BodyRan(calls[n]) =>
            /\ calls[n].exc # "ValueError"
            /\ calls[n].exc = "none" =>
                  \A s \in {SeriesDates(calls[n])} :
                      /\ Len(s) >= 1
                      /\ YearOf(s[1]) = YearOf(calls[n].today) - 5
                      /\ MonthOf(s[1]) = MonthOf(calls[n].today)
                      /\ DayOf(s[1]) = DayOf(calls[n].today)
                      /\ s[Len(s)] = calls[n].today
                      /\ \A i \in 1..(Len(s) - 1) : s[i + 1] = s[i] + 1

=============================================================================
